---- MODULE Spec2Model ----
(***************************************************************************)
(* Model of webhook.py: the Stripe webhook that mirrors subscriptions into *)
(* Postgres and keeps users.tier / users.premium_until in step.            *)
(*                                                                         *)
(* Every DB helper of webhook.py opens its own connection in a `with`      *)
(* block, so every helper is its own transaction: it commits when the      *)
(* block is left normally and rolls back when an exception leaves it.      *)
(* The handler is modelled as one action; the input `fail` names the       *)
(* helper (if any) that raises during this delivery, so the state after a  *)
(* failed delivery holds exactly the transactions committed before it.     *)
(*                                                                         *)
(* Encodings: NULL / None is 0 for timestamps and user ids (Python's       *)
(* truthiness tests `if cpe`, `if user_id` treat 0 the same as None), and  *)
(* a named absent-row record for table rows.                               *)
(***************************************************************************)
EXTENDS Integers, Sequences, FiniteSets, TLC

\* ---------------------------------------------------------------- bounds
MaxTime == 2

\* ---------------------------------------------------------------- domains
NULL == 0
Users == {1, 2}
SubIds == {"sub_A", "sub_B"}
EventIds == {"evt_1", "evt_2", "evt_3"}
Times == 1..MaxTime
PREMIUM_PRICE_ID == "price_premium"
Prices == {PREMIUM_PRICE_ID, "price_other"}
NoCustomer == "none"
CustomerIds == {"cus_1"}
Statuses == {"trialing", "active", "past_due", "canceled"}
ActiveStatuses == {"trialing", "active"}
SubEventTypes == {"customer.subscription.updated", "customer.subscription.deleted"}
InvoiceEventTypes == {"invoice.payment_succeeded", "invoice.payment_failed"}
EventTypes == {"checkout.session.completed", "ping"} \cup InvoiceEventTypes \cup SubEventTypes
FailPoints == {"none", "upsert_event", "retrieve", "sync_lookup", "customer", "subscription",
               "ensure_user", "set_premium", "lookup", "set_free", "mapping", "mark"}

\* data.object of the event, reduced to the fields the handler reads
NoSubId == "none"
MkPayload(mode, sub_id, cref) == [mode |-> mode, sub_id |-> sub_id, client_reference_id |-> cref]
Payloads(event_type) ==
    IF event_type = "checkout.session.completed"
    THEN {MkPayload("subscription", s, c) : s \in SubIds, c \in {NULL} \cup Users}
         \cup {MkPayload("payment", NoSubId, NULL)}
    ELSE IF event_type \in InvoiceEventTypes
    THEN {MkPayload("n/a", s, NULL) : s \in SubIds \cup {NoSubId}}
    ELSE IF event_type \in SubEventTypes
    THEN {MkPayload("n/a", s, NULL) : s \in SubIds}
    ELSE {MkPayload("n/a", NoSubId, NULL)}

\* the subscription object stripe.Subscription.retrieve returns
\* (a Stripe subscription always has a customer; for a foreign price the
\* handler reads no other field, so one such object is enumerated)
PremiumSubs ==
    [status : Statuses, current_period_end : {NULL} \cup Times, price_id : {PREMIUM_PRICE_ID},
     md_user_id : {NULL} \cup Users, customer : CustomerIds]
ForeignSub ==
    [status |-> "active", current_period_end |-> NULL, price_id |-> "price_other",
     md_user_id |-> NULL, customer |-> "cus_1"]
StripeSubs == PremiumSubs \cup {ForeignSub}

\* ---------------------------------------------------------------- tables
\* (the event_type and payload columns of stripe_webhook_events are written
\* once and never read; a ledger row is its key and processed_at, with
\* processed_at = Absent standing for "no row")
Absent == -1
NoEvent == [processed_at |-> Absent]
NoSub == [user_id |-> NULL, price_id |-> "none", status |-> "none", current_period_end |-> NULL]
NoUser == [tier |-> "none", premium_until |-> NULL]

VARIABLES
    stripe_webhook_events,   \* event_id -> ledger row
    stripe_customers,        \* user_id -> customer_id
    stripe_subscriptions,    \* subscription_id -> mirror row
    users,                   \* user_id -> row
    premium_audit,           \* sequence of audit rows
    now,                     \* last clock reading (NOW())
    last,                    \* the last delivery: inputs and response
    okEvents,                \* event ids whose handler body ran to its end
    procs                    \* concurrent requests: position in the handler and locals

dbvars == <<stripe_webhook_events, stripe_customers, stripe_subscriptions, users, premium_audit>>
vars == <<stripe_webhook_events, stripe_customers, stripe_subscriptions, users, premium_audit,
          now, last, okEvents, procs>>

DB == [events |-> stripe_webhook_events, customers |-> stripe_customers,
       subs |-> stripe_subscriptions, users |-> users, audit |-> premium_audit]

\* ---------------------------------------------------------------- DB helpers
\* INSERT ... ON CONFLICT (event_id) DO NOTHING; rowcount == 1 iff the row is new
upsert_event_new_always(db, event_id) == TRUE

upsert_event_new(db, event_id) == db.events[event_id] = NoEvent

upsert_event_no_insert(db, event_id, event_type, payload) == db

upsert_event(db, event_id, event_type, payload) ==
    IF db.events[event_id] = NoEvent
    THEN [db EXCEPT !.events[event_id] =
             [processed_at |-> NULL]]
    ELSE db

mark_event_processed(db, event_id, t) ==
    IF db.events[event_id] = NoEvent THEN db
    ELSE [db EXCEPT !.events[event_id].processed_at = t]

upsert_stripe_customer(db, user_id, customer_id) ==
    [db EXCEPT !.customers[user_id] = customer_id]

upsert_stripe_subscription(db, user_id, sub_id, sub) ==
    [db EXCEPT !.subs[sub_id] =
        [user_id |-> user_id, price_id |-> sub.price_id, status |-> sub.status,
         current_period_end |-> sub.current_period_end]]

ensure_user(db, user_id) ==
    IF db.users[user_id] = NoUser
    THEN [db EXCEPT !.users[user_id] = [tier |-> "free", premium_until |-> NULL]]
    ELSE db

\* the second transaction of set_premium (after ensure_user): UPDATE users + INSERT audit
set_premium_tx(db, user_id, until, t) ==
    LET u == IF until = NULL THEN t ELSE until
        d == IF db.users[user_id] = NoUser THEN db
             ELSE [db EXCEPT !.users[user_id] = [tier |-> "premium", premium_until |-> u]]
    IN [d EXCEPT !.audit = Append(@, [user_id |-> user_id, action |-> "sync", until |-> u])]

set_free(db, user_id) ==
    LET d == IF db.users[user_id] = NoUser THEN db
             ELSE [db EXCEPT !.users[user_id] = [tier |-> "free", premium_until |-> NULL]]
    IN [d EXCEPT !.audit = Append(@, [user_id |-> user_id, action |-> "revoke", until |-> NULL])]

\* SELECT user_id FROM stripe_subscriptions WHERE subscription_id = ...
sync_lookup_user(db, sub_id) == db.subs[sub_id].user_id

deleted_lookup_user_none(db, sub_id) == NULL

deleted_lookup_user(db, sub_id) == db.subs[sub_id].user_id

\* ---------------------------------------------------------------- core sync
Res(db, user_id, raised) == [db |-> db, user_id |-> user_id, raised |-> raised]

apply_tier_state_demoting(db, user_id, status, until, t, fail) ==
    IF status \in ActiveStatuses
    THEN IF fail = "ensure_user" THEN Res(db, NULL, TRUE)
         ELSE IF fail = "set_premium" THEN Res(ensure_user(db, user_id), NULL, TRUE)
         ELSE Res(set_premium_tx(ensure_user(db, user_id), user_id, until, t), user_id, FALSE)
    ELSE Res(set_free(db, user_id), user_id, FALSE)

\* lines 191-196: promote on trialing/active, otherwise leave the tier alone
apply_tier_state(db, user_id, status, until, t, fail) ==
    IF status \in ActiveStatuses
    THEN IF fail = "ensure_user" THEN Res(db, NULL, TRUE)
         ELSE IF fail = "set_premium" THEN Res(ensure_user(db, user_id), NULL, TRUE)
         ELSE Res(set_premium_tx(ensure_user(db, user_id), user_id, until, t), user_id, FALSE)
    ELSE Res(db, user_id, FALSE)

sync_user_from_subscription(db, sub_id, sub, explicit_user_id, t, fail) ==
    IF fail = "retrieve" THEN Res(db, NULL, TRUE)
    ELSE IF sub.price_id # PREMIUM_PRICE_ID THEN Res(db, NULL, FALSE)
    ELSE
      LET uid0 == IF explicit_user_id # NULL THEN explicit_user_id ELSE sub.md_user_id
          user_id == IF uid0 # NULL THEN uid0 ELSE sync_lookup_user(db, sub_id)
          until == sub.current_period_end
      IN IF uid0 = NULL /\ fail = "sync_lookup" THEN Res(db, NULL, TRUE)
         ELSE IF user_id = NULL THEN Res(db, NULL, FALSE)
         ELSE IF sub.customer # NoCustomer /\ fail = "customer" THEN Res(db, NULL, TRUE)
         ELSE
           LET d1 == IF sub.customer # NoCustomer
                     THEN upsert_stripe_customer(db, user_id, sub.customer) ELSE db
           IN IF fail = "subscription" THEN Res(d1, NULL, TRUE)
              ELSE apply_tier_state(upsert_stripe_subscription(d1, user_id, sub_id, sub),
                                    user_id, sub.status, until, t, fail)

\* ---------------------------------------------------------------- handler
\* the body of the try block (lines 237-318)
handle_unrecognized_audited(db) ==
    Res([db EXCEPT !.audit = Append(@, [user_id |-> NULL, action |-> "ignored",
                                        until |-> NULL])], NULL, FALSE)

\* an event type matching none of the branches of lines 238-318 falls through
\* the if/elif chain
handle_unrecognized(db) == Res(db, NULL, FALSE)

handle_event(db, event_type, payload, sub, first_price, t, fail) ==
    IF event_type = "checkout.session.completed"
    THEN IF payload.mode # "subscription" THEN Res(db, NULL, FALSE)
         ELSE IF first_price # PREMIUM_PRICE_ID THEN Res(db, NULL, FALSE)
         ELSE LET r == sync_user_from_subscription(db, payload.sub_id, sub,
                                                   payload.client_reference_id, t, fail)
              IN IF r.raised THEN r
                 ELSE IF fail = "mapping" THEN Res(r.db, r.user_id, TRUE)
                 ELSE r
    ELSE IF event_type \in InvoiceEventTypes
    THEN IF payload.sub_id = NoSubId THEN Res(db, NULL, FALSE)
         ELSE sync_user_from_subscription(db, payload.sub_id, sub, NULL, t, fail)
    ELSE IF event_type = "customer.subscription.updated"
    THEN sync_user_from_subscription(db, payload.sub_id, sub, NULL, t, fail)
    ELSE IF event_type = "customer.subscription.deleted"
    THEN LET r == sync_user_from_subscription(db, payload.sub_id, sub, NULL, t, fail)
         IN IF r.raised THEN r
            ELSE IF r.user_id = NULL /\ fail = "lookup" THEN Res(r.db, NULL, TRUE)
            ELSE LET user_id == IF r.user_id # NULL THEN r.user_id
                                ELSE deleted_lookup_user(r.db, payload.sub_id)
                 IN IF user_id = NULL THEN Res(r.db, NULL, FALSE)
                    ELSE IF fail = "set_free" THEN Res(r.db, user_id, TRUE)
                    ELSE Res(set_free(r.db, user_id), user_id, FALSE)
    ELSE handle_unrecognized(db)

finally_mark_on_success(db, event_id, t, raised) ==
    IF raised THEN db ELSE mark_event_processed(db, event_id, t)

\* the finally block (lines 320-321) runs whether or not the body raised
finally_mark(db, event_id, t, raised) == mark_event_processed(db, event_id, t)

\* stripe_webhook after construct_event succeeded; resp is the HTTP answer
stripe_webhook(db, event_id, event_type, payload, sub, first_price, t, fail) ==
    IF fail = "upsert_event"
    THEN [db |-> db, resp |-> "error", user_id |-> NULL, completed |-> FALSE]
    ELSE IF ~upsert_event_new(db, event_id)
    THEN [db |-> db, resp |-> "dedup", user_id |-> NULL, completed |-> FALSE]
    ELSE
      LET d0 == upsert_event(db, event_id, event_type, payload)
          r == handle_event(d0, event_type, payload, sub, first_price, t, fail)
      IN IF fail = "mark"
         THEN [db |-> r.db, resp |-> "error", user_id |-> r.user_id, completed |-> ~r.raised]
         ELSE [db |-> finally_mark(r.db, event_id, t, r.raised),
               resp |-> IF r.raised THEN "error" ELSE "ok",
               user_id |-> r.user_id, completed |-> ~r.raised]

\* ---------------------------------------------------------------- behaviour
\* last: the last delivery.  resp is the answer ("invalid" 400, "dedup" and
\* "ok" 200, "error" 500); event_type and sub_id are those of the event when
\* the handler body ran; status, until and md_user_id are those of the
\* subscription object fetched by sync_user_from_subscription, when it
\* fetched one, and price_id is the price the handler compared with
\* PREMIUM_PRICE_ID; user_id is the user the handler resolved; sig_ok tells
\* whether construct_event accepted the delivery and mark_raised whether the
\* stamping write of the finally block raised.
NoDelivery ==
    [event_id |-> "none", event_type |-> "none", sub_id |-> NoSubId, resp |-> "none",
     user_id |-> NULL, status |-> "none", until |-> NULL, md_user_id |-> NULL,
     price_id |-> "none", sig_ok |-> TRUE, mark_raised |-> FALSE]

\* the empty tables
EmptyDB ==
    [events |-> [e \in EventIds |-> NoEvent], customers |-> [u \in Users |-> NoCustomer],
     subs |-> [s \in SubIds |-> NoSub], users |-> [u \in Users |-> NoUser],
     audit |-> <<>>]

\* the requests the server handles at the same time (one worker thread each)
Procs == {1, 2}

\* a request: pc is the next statement of stripe_webhook it executes, input
\* the delivery, user_id the handler's local of that name, admitted the
\* value upsert_event returned, resp the answer once it returned
NoRequest ==
    [pc |-> "idle", input |-> "none", user_id |-> NULL, admitted |-> FALSE, resp |-> "none"]

Init ==
    /\ stripe_webhook_events = EmptyDB.events
    /\ stripe_customers = EmptyDB.customers
    /\ stripe_subscriptions = EmptyDB.subs
    /\ users = EmptyDB.users
    /\ premium_audit = EmptyDB.audit
    /\ now = 1
    /\ last = NoDelivery
    /\ okEvents = {}
    /\ procs = [p \in Procs |-> NoRequest]

\* the first fetch of the checkout branch (lines 247-253): its price, "none"
\* when the fetch raises or the subscription has no items
FirstPrices(event_type, payload) ==
    IF event_type = "checkout.session.completed" /\ payload.mode = "subscription"
    THEN Prices \cup {"none"} ELSE {"none"}

\* does the delivery reach sync_user_from_subscription
Syncs(event_type, payload, first_price) ==
    /\ event_type # "ping"
    /\ payload.sub_id # NoSubId
    /\ event_type = "checkout.session.completed" =>
          payload.mode = "subscription" /\ first_price = PREMIUM_PRICE_ID

\* the subscription objects a delivery can fetch in sync_user_from_subscription:
\* none is fetched when sync is not reached, and the metadata is not read when
\* the checkout session carries a client_reference_id
FetchedSubs(event_type, payload, first_price) ==
    IF ~Syncs(event_type, payload, first_price) THEN {ForeignSub}
    ELSE IF payload.client_reference_id # NULL THEN {s \in StripeSubs : s.md_user_id = NULL}
    ELSE StripeSubs

\* the calls that can raise on the path these inputs take
FailsFor(event_type, payload, first_price, sub) ==
    FailPoints \cap UNION {
    {"none", "upsert_event", "mark"},
    (IF Syncs(event_type, payload, first_price) THEN {"retrieve"} ELSE {}),
    (IF Syncs(event_type, payload, first_price) /\ sub.price_id = PREMIUM_PRICE_ID
          THEN {"customer", "subscription"} \cup
               (IF sub.md_user_id = NULL /\ payload.client_reference_id = NULL
                THEN {"sync_lookup"} ELSE {}) \cup
               (IF sub.status \in ActiveStatuses THEN {"ensure_user", "set_premium"} ELSE {})
          ELSE {}),
    (IF event_type = "checkout.session.completed" /\ Syncs(event_type, payload, first_price)
          THEN {"mapping"} ELSE {}),
    (IF event_type = "customer.subscription.deleted" THEN {"lookup", "set_free"} ELSE {}) }

MkInput(e, ty, p, fp, sub, t, f) ==
    [event_id |-> e, event_type |-> ty, payload |-> p, first_price |-> fp, sub |-> sub,
     t |-> t, fail |-> f, sig_ok |-> TRUE]

construct_event_ok_unchecked(sig_ok) == TRUE

\* stripe.Webhook.construct_event (lines 221-226) returns iff the payload
\* parses and the signature verifies
construct_event_ok(sig_ok) == sig_ok

Outcome(db, i) ==
    IF ~construct_event_ok(i.sig_ok)
    THEN [db |-> db, resp |-> "invalid", user_id |-> NULL, completed |-> FALSE]
    ELSE stripe_webhook(db, i.event_id, i.event_type, i.payload, i.sub, i.first_price,
                        i.t, i.fail)

\* the ledger holds the event
Held(e) == stripe_webhook_events[e] # NoEvent

Apply(i, r) ==
    /\ stripe_webhook_events' = r.db.events
    /\ stripe_customers' = r.db.customers
    /\ stripe_subscriptions' = r.db.subs
    /\ users' = r.db.users
    /\ premium_audit' = r.db.audit
    /\ now' = i.t
    /\ last' = IF r.resp = "invalid"
               THEN [NoDelivery EXCEPT !.resp = r.resp, !.sig_ok = i.sig_ok]
               ELSE IF r.resp = "dedup" \/ i.fail = "upsert_event"
               THEN [NoDelivery EXCEPT !.event_id = i.event_id, !.resp = r.resp,
                                       !.sig_ok = i.sig_ok]
               ELSE LET fetched == Syncs(i.event_type, i.payload, i.first_price)
                                   /\ i.fail # "retrieve"
                        checkout == i.event_type = "checkout.session.completed"
                                    /\ i.payload.mode = "subscription"
                    IN [event_id |-> i.event_id, event_type |-> i.event_type,
                        sub_id |-> i.payload.sub_id, resp |-> r.resp, user_id |-> r.user_id,
                        status |-> IF fetched THEN i.sub.status ELSE "none",
                        until |-> IF fetched THEN i.sub.current_period_end ELSE NULL,
                        md_user_id |-> IF fetched THEN i.sub.md_user_id ELSE NULL,
                        price_id |-> IF checkout /\ i.first_price # PREMIUM_PRICE_ID
                                     THEN i.first_price
                                     ELSE IF fetched THEN i.sub.price_id ELSE "none",
                        sig_ok |-> i.sig_ok,
                        mark_raised |-> i.fail = "mark"]
    /\ okEvents' = IF r.completed THEN okEvents \cup {i.event_id} ELSE okEvents
    /\ UNCHANGED procs

\* Subscription lifecycle deliveries: a subscription-updated or -deleted event
\* for a premium subscription whose metadata names the user, handled without
\* a failure.
\* (what Stripe returns for a deleted subscription has status canceled)
PlainSubs(event_type) ==
    {s \in PremiumSubs :
        /\ s.status \in {"active", "canceled"}
        /\ event_type = "customer.subscription.deleted" => s.status = "canceled"
        /\ s.md_user_id # NULL
        /\ s.current_period_end = MaxTime}

\* construct_event raises (lines 221-226): 400 before anything is read or written
\* (the delivery has any lifecycle body)
Reject ==
    \E e \in EventIds, ty \in SubEventTypes :
       \E p \in Payloads(ty), sub \in PlainSubs(ty) :
          LET i == [MkInput(e, ty, p, "none", sub, now, "none") EXCEPT !.sig_ok = FALSE]
              r == Outcome(DB, i)
          IN Apply(i, r)

\* A first lifecycle delivery of an event of E.
Deliver(E) ==
    \E e \in E :
      /\ ~Held(e)
      /\ \E ty \in SubEventTypes, t \in now..MaxTime :
           \E p \in Payloads(ty), sub \in PlainSubs(ty) :
              LET i == MkInput(e, ty, p, "none", sub, t, "none")
                  r == Outcome(DB, i)
              IN Apply(i, r)

\* A delivery of an event the ledger holds, with any lifecycle body (the
\* handler returns at line 234 without reading the clock).
Redeliver ==
    \E e \in EventIds :
      /\ Held(e)
      /\ \E ty \in SubEventTypes :
           \E p \in Payloads(ty), sub \in PlainSubs(ty) :
              LET i == MkInput(e, ty, p, "none", sub, now, "none")
                  r == Outcome(DB, i)
              IN Apply(i, r)

\* An arbitrary first delivery: any type, payload, fetched object, clock
\* reading and failure point.
DeliverAny(E) ==
    \E e \in E :
       /\ ~Held(e)
       /\ \E ty \in EventTypes, t \in now..MaxTime :
            \E p \in Payloads(ty) :
              \E fp \in FirstPrices(ty, p) :
                \E sub \in FetchedSubs(ty, p, fp) :
                  \E f \in FailsFor(ty, p, fp, sub) :
                     LET i == MkInput(e, ty, p, fp, sub, t, f)
                         r == Outcome(DB, i)
                     IN Apply(i, r)

\* one lifecycle delivery (and its redeliveries) around one arbitrary delivery
Next == Deliver({"evt_1"}) \/ DeliverAny({"evt_2"}) \/ Redeliver \/ Reject

Spec == Init /\ [][Next]_vars

\* three events of lifecycle deliveries
NextLifecycle == Deliver(EventIds) \/ Redeliver \/ Reject

SpecLifecycle == Init /\ [][NextLifecycle]_vars

\* ---------------------------------------------------------------- concurrent requests
\* Two requests handled at the same time.  Every helper call is one
\* transaction on its own connection (get_db, lines 28-29), so a step of a
\* request is one helper call; the steps of the two requests interleave in
\* any order.  The deliveries are subscription-updated and -deleted events
\* for a premium subscription, handled without a failure.
ConcEvents == {"evt_1", "evt_2"}

ConcSubs(event_type) ==
    {s \in PremiumSubs :
        /\ s.status \in {"active", "canceled"}
        /\ event_type = "customer.subscription.deleted" => s.status = "canceled"
        /\ s.current_period_end = MaxTime}

\* where the handler continues after sync_user_from_subscription returned
AfterSync(i, user_id) ==
    IF i.event_type = "customer.subscription.deleted"
    THEN IF user_id # NULL THEN "set_free" ELSE "lookup"
    ELSE "mark"

StepRes(db, pc, user_id) == [db |-> db, pc |-> pc, user_id |-> user_id]

\* one statement of the handler, executed by request r on database db
handler_step(db, r) ==
    LET i == r.input
        sub_id == i.payload.sub_id
        sub == i.sub
    IN CASE r.pc = "upsert_event" ->
              IF upsert_event_new(db, i.event_id)
              THEN StepRes(upsert_event(db, i.event_id, i.event_type, i.payload),
                           "retrieve", NULL)
              ELSE StepRes(db, "dedup", NULL)
         [] r.pc = "retrieve" ->
              IF sub.price_id # PREMIUM_PRICE_ID THEN StepRes(db, AfterSync(i, NULL), NULL)
              ELSE IF sub.md_user_id # NULL THEN StepRes(db, "customer", sub.md_user_id)
              ELSE StepRes(db, "sync_lookup", NULL)
         [] r.pc = "sync_lookup" ->
              LET user_id == sync_lookup_user(db, sub_id)
              IN IF user_id = NULL THEN StepRes(db, AfterSync(i, NULL), NULL)
                 ELSE StepRes(db, "customer", user_id)
         [] r.pc = "customer" ->
              StepRes(IF sub.customer # NoCustomer
                      THEN upsert_stripe_customer(db, r.user_id, sub.customer) ELSE db,
                      "subscription", r.user_id)
         [] r.pc = "subscription" ->
              StepRes(upsert_stripe_subscription(db, r.user_id, sub_id, sub),
                      IF sub.status \in ActiveStatuses THEN "ensure_user"
                      ELSE AfterSync(i, r.user_id), r.user_id)
         [] r.pc = "ensure_user" ->
              StepRes(ensure_user(db, r.user_id), "set_premium", r.user_id)
         [] r.pc = "set_premium" ->
              StepRes(set_premium_tx(db, r.user_id, sub.current_period_end, i.t),
                      AfterSync(i, r.user_id), r.user_id)
         [] r.pc = "lookup" ->
              LET user_id == deleted_lookup_user(db, sub_id)
              IN StepRes(db, IF user_id = NULL THEN "mark" ELSE "set_free", user_id)
         [] r.pc = "set_free" ->
              StepRes(set_free(db, r.user_id), "mark", r.user_id)
         [] r.pc = "mark" ->
              StepRes(mark_event_processed(db, i.event_id, i.t), "ok", r.user_id)

\* a delivery arrives and a worker starts to handle it
Start(p) ==
    /\ procs[p].pc = "idle"
    /\ \E e \in ConcEvents, ty \in SubEventTypes :
          \E payload \in Payloads(ty), sub \in ConcSubs(ty) :
             procs' = [procs EXCEPT ![p] =
                         [NoRequest EXCEPT !.pc = "upsert_event",
                            !.input = MkInput(e, ty, payload, "none", sub, now, "none")]]
    /\ UNCHANGED <<dbvars, now, last, okEvents>>

\* request p executes its next statement
Step(p) ==
    /\ procs[p].pc \notin {"idle", "done"}
    /\ LET r == procs[p]
           s == handler_step(DB, r)
           returns == s.pc \in {"dedup", "ok"}
       IN /\ stripe_webhook_events' = s.db.events
          /\ stripe_customers' = s.db.customers
          /\ stripe_subscriptions' = s.db.subs
          /\ users' = s.db.users
          /\ premium_audit' = s.db.audit
          /\ procs' = [procs EXCEPT ![p] =
                         [r EXCEPT !.pc = IF returns THEN "done" ELSE s.pc,
                                   !.user_id = s.user_id,
                                   !.admitted = r.admitted \/ (r.pc = "upsert_event"
                                                              /\ s.pc # "dedup"),
                                   !.resp = IF returns THEN s.pc ELSE r.resp]]
    /\ UNCHANGED <<now, last, okEvents>>

NextConcurrent == \E p \in Procs : Start(p) \/ Step(p)
SpecConcurrent == Init /\ [][NextConcurrent]_vars

TypeOK ==
    /\ now \in Times
    /\ \A u \in Users : users[u].tier \in {"none", "free", "premium"}
    /\ \A p \in Procs : procs[p].resp \in {"none", "dedup", "ok"}

\* ---------------------------------------------------------------- properties
Free == [tier |-> "free", premium_until |-> NULL]

\* u owns a mirrored subscription that is active and ends after t (or never)
HasActiveEntitlement(subs, u, t) ==
    \E s \in SubIds :
       /\ subs[s].user_id = u
       /\ subs[s].status \in ActiveStatuses
       /\ subs[s].current_period_end = NULL \/ subs[s].current_period_end > t

\* this step ran the handler body for an event the ledger did not hold
Handled == last'.event_type # "none" /\ ~Held(last'.event_id)

\* this step delivered an event the ledger already held
Repeated == last'.event_id \in EventIds /\ Held(last'.event_id)

\* C1: a user's tier is premium iff the user owns a qualifying active
\* entitlement; in particular the tier is never cleared (premium to free)
\* while the user still owns a stored entitlement that is active and whose
\* end is null or in the future.
C1_NeverFreeWhileEntitled ==
    [][\A u \in Users :
          (users[u].tier = "premium" /\ users'[u].tier = "free")
             => ~HasActiveEntitlement(stripe_subscriptions', u, now')]_vars

\* C2: a delivery of an event id the ledger already holds is answered with
\* success (dedup) and leaves the subscription mirror, the customer mirror,
\* the users rows and the audit trail unchanged, whatever its body.
C2_DedupGate ==
    [][Repeated =>
          /\ last'.resp = "dedup"
          /\ UNCHANGED <<stripe_subscriptions, stripe_customers, users, premium_audit>>]_vars

C2_Witness ==
    /\ last.resp = "dedup"
    /\ last.event_id \in okEvents
    /\ premium_audit # <<>>

\* C3: a premium user who owns two active subscriptions A and B stays premium
\* after a subscription event about A is handled while B is still active.
C3_StaysPremiumWhileOtherActive ==
    [][\A u \in Users : \A a, b \in SubIds :
          ( /\ a # b
            /\ users[u].tier = "premium"
            /\ stripe_subscriptions[a].user_id = u
            /\ stripe_subscriptions[a].status \in ActiveStatuses
            /\ stripe_subscriptions[b].user_id = u
            /\ Handled
            /\ last'.event_type \in SubEventTypes
            /\ last'.sub_id = a
            /\ last'.resp = "ok"
            /\ stripe_subscriptions'[b].user_id = u
            /\ stripe_subscriptions'[b].status \in ActiveStatuses
            /\ stripe_subscriptions'[b].current_period_end > now' )
          => users'[u].tier = "premium"]_vars

\* C4: right after a create (checkout) or update event with an active status
\* is handled for a resolved user, the user's row is premium with
\* premium_until equal to the event's expiry, null when the expiry is null.
C4_PromotionSetsExpiry ==
    ( /\ last.event_type \in {"checkout.session.completed", "customer.subscription.updated"}
      /\ last.resp = "ok"
      /\ last.user_id # NULL
      /\ last.status \in ActiveStatuses )
    => users[last.user_id] = [tier |-> "premium", premium_until |-> last.until]

C6_DeleteResolvesOwner ==
    [][( /\ Handled
         /\ last'.event_type = "customer.subscription.deleted"
         /\ last'.resp = "ok"
         /\ last'.md_user_id = NULL )
       => LET owner == stripe_subscriptions[last'.sub_id].user_id
          IN /\ \A u \in Users \ {owner} : users'[u] = users[u]
             /\ owner # NULL => /\ last'.user_id = owner
                                /\ users'[owner].tier # "premium"
                                /\ users[owner] # NoUser => users'[owner] = Free]_vars

C6_Witness ==
    /\ last.event_type = "customer.subscription.deleted"
    /\ last.resp = "ok"
    /\ last.md_user_id = NULL
    /\ last.user_id # NULL
    /\ stripe_subscriptions[last.sub_id].user_id = last.user_id
    /\ users[last.user_id] = Free
    /\ \E k \in 1..Len(premium_audit) :
          premium_audit[k].user_id = last.user_id /\ premium_audit[k].action = "sync"
    /\ premium_audit[Len(premium_audit)].action = "revoke"

\* C7: a delivery that is answered with a failure leaves no write behind:
\* ledger, mirrors, users and audit trail equal their values before it.
C7_AllOrNothing ==
    [][last'.resp = "error" => UNCHANGED dbvars]_vars

\* C8: a delivery is dropped as a duplicate only if an earlier delivery of
\* the same event id was handled to the end: after a failed attempt the
\* redelivery is processed again.
C8_RedeliveryAfterFailure ==
    [][(Repeated /\ last'.event_id \notin okEvents) => last'.resp # "dedup"]_vars

\* C9: delivering an event again, any number of times in a row after a
\* delivery of it that got past the ledger insert, leaves every user's tier
\* and premium_until as the first of these deliveries left them.
C9_ReplayIdempotent ==
    [][( /\ last.event_id \in EventIds
         /\ last'.event_id = last.event_id
         /\ ~(last.resp = "error" /\ last.event_type = "none") )
       => users' = users]_vars

C9_Witness ==
    /\ last.resp = "dedup"
    /\ last.event_id \notin okEvents
    /\ \E u \in Users : users[u].tier = "premium"

\* C10: processed_at of a ledger row is set only for an event whose handler
\* body ran to its end; a failed event keeps processed_at null.
C10_StampOnlyWhenCompleted ==
    \A e \in EventIds :
       stripe_webhook_events[e].processed_at \in Times => e \in okEvents

\* ------------------------------------------------------------------- C11
\* the database after request a and then request b were each handled alone,
\* one after the other, from the empty tables
Serial(a, b) == Outcome(Outcome(EmptyDB, procs[a].input).db, procs[b].input).db

\* C11: when two concurrent requests with different events that resolved the
\* same user have both returned, the users rows and the subscription mirror
\* are those that handling the two deliveries one after the other, in one of
\* the two orders, produces.
C11_SameUserSerializable ==
    (/\ \A p \in Procs : procs[p].pc = "done"
     /\ procs[1].input.event_id # procs[2].input.event_id
     /\ procs[1].user_id # NULL
     /\ procs[1].user_id = procs[2].user_id)
    => \E o \in {<<1, 2>>, <<2, 1>>} :
          /\ users = Serial(o[1], o[2]).users
          /\ stripe_subscriptions = Serial(o[1], o[2]).subs

\* ------------------------------------------------------------------- C12
\* the requests that carry event e and have executed upsert_event
Past(ps, e) ==
    {p \in Procs : ps[p].pc \notin {"idle", "upsert_event"} /\ ps[p].input.event_id = e}

\* C12: of the concurrent requests that carry the same event id and have
\* executed upsert_event, exactly one was admitted as new, and the ledger
\* holds the row of that event; a request that was not admitted is answered
\* as a duplicate, and no step of it changes a table.
C12_ExactlyOnceAdmission ==
    [][/\ \A e \in ConcEvents :
             Past(procs', e) # {} =>
                /\ Cardinality({p \in Past(procs', e) : procs'[p].admitted}) = 1
                /\ stripe_webhook_events'[e] # NoEvent
       /\ \A p \in Procs :
             procs'[p] # procs[p] /\ procs[p].pc # "idle" /\ ~procs'[p].admitted =>
                /\ procs'[p].pc = "done" /\ procs'[p].resp = "dedup"
                /\ UNCHANGED dbvars]_vars

\* two requests carrying the same event id have both returned, one of them
\* after reconciling, the other as a duplicate
C12_Witness ==
    /\ \A p \in Procs : procs[p].pc = "done"
    /\ procs[1].input.event_id = procs[2].input.event_id
    /\ \E p, q \in Procs : procs[p].resp = "ok" /\ procs[q].resp = "dedup"
    /\ premium_audit # <<>>

\* ------------------------------------------------------------------- C13
\* C13: a delivery that construct_event does not accept is answered with a
\* rejection and leaves the ledger, both mirrors, the users rows and the
\* audit trail unchanged.
C13_RejectedLeavesState ==
    [][~last'.sig_ok => last'.resp = "invalid" /\ UNCHANGED dbvars]_vars

\* a delivery was rejected in a state that holds reconciled data
C13_Witness ==
    /\ ~last.sig_ok /\ last.resp = "invalid"
    /\ premium_audit # <<>>
    /\ \E e \in EventIds : ~Held(e)

\* ------------------------------------------------------------------- C14
\* C14: a first delivery of an event of an unrecognized type leaves both
\* mirrors, every users row and the audit trail unchanged, writes only the
\* ledger row of its event and, when the stamping write does not raise, is
\* answered with success.
C14_UnrecognizedNoOp ==
    [][Handled /\ last'.event_type = "ping" =>
          /\ UNCHANGED <<stripe_customers, stripe_subscriptions, users, premium_audit>>
          /\ stripe_webhook_events'[last'.event_id] # NoEvent
          /\ \A e \in EventIds \ {last'.event_id} :
                stripe_webhook_events'[e] = stripe_webhook_events[e]
          /\ ~last'.mark_raised => last'.resp = "ok"]_vars

\* an unrecognized event was acknowledged in a state that holds reconciled data
C14_Witness ==
    /\ last.event_type = "ping" /\ last.resp = "ok"
    /\ premium_audit # <<>>
    /\ \E u \in Users : users[u].tier = "premium"

\* ------------------------------------------------------------------- C15
\* C15: after a delivery that was processed to its end and resolved a user
\* id, a users row of that user exists.
C15_ResolvedUserHasRow ==
    last.resp = "ok" /\ last.user_id # NULL => users[last.user_id] # NoUser

\* ------------------------------------------------------------------- C16
\* C16: a first delivery of invoice.payment_failed leaves every premium user
\* premium and clears no premium_until, whatever the fetched status; and a
\* step that takes a user out of premium is a subscription-deleted delivery.
C16_PaymentFailedNeverRevokes ==
    [][/\ Handled /\ last'.event_type = "invoice.payment_failed" =>
             \A u \in Users :
                /\ users[u].tier = "premium" => users'[u].tier = "premium"
                /\ users[u].premium_until # NULL => users'[u].premium_until # NULL
       /\ (\E u \in Users : users[u].tier = "premium" /\ users'[u].tier # "premium") =>
             last'.event_type = "customer.subscription.deleted"]_vars

\* a payment failure whose fetched subscription is no longer active was
\* processed for a premium user
C16_Witness ==
    /\ last.event_type = "invoice.payment_failed" /\ last.resp = "ok"
    /\ last.status \in Statuses \ ActiveStatuses
    /\ last.user_id # NULL
    /\ users[last.user_id].tier = "premium"

\* ------------------------------------------------------------------- C17
\* C17: a first delivery whose subscription has a price other than
\* PREMIUM_PRICE_ID changes no users row, no mirror row and not the audit
\* trail.
C17_ForeignPriceIsolation ==
    [][Handled /\ last'.price_id \in Prices \ {PREMIUM_PRICE_ID} =>
          UNCHANGED <<stripe_customers, stripe_subscriptions, users, premium_audit>>]_vars

\* ------------------------------------------------------------------- C18
\* C18: after a first delivery of an event whose handler body ran, in
\* whatever way it ended, the ledger row of the event has processed_at set
\* to the time of the delivery, provided the stamping write did not raise;
\* and a duplicate delivery leaves the ledger unchanged.
C18_AdmittedEventStamped ==
    [][/\ Handled /\ ~last'.mark_raised =>
             stripe_webhook_events'[last'.event_id].processed_at = now'
       /\ Repeated => stripe_webhook_events' = stripe_webhook_events]_vars

\* an event whose handler body raised is stamped
C18_Witness ==
    /\ last.event_type # "none" /\ last.resp = "error" /\ ~last.mark_raised
    /\ stripe_webhook_events[last.event_id].processed_at \in Times

\* ------------------------------------------------------------------- C19
\* C19: every audit row a step appends names a user whose users row exists
\* after the step, so that the row records a tier write that modified a row.
C19_AuditMatchesTierWrite ==
    [][\A k \in (Len(premium_audit) + 1)..Len(premium_audit') :
          users'[premium_audit'[k].user_id] # NoUser]_vars

====
